---- MODULE Spec2Model ----
(***************************************************************************)
(* The client-side list controller of GameList.svelte: filter selection,   *)
(* pagination state, the browser's query string and the fetched item list. *)
(*                                                                         *)
(* Strings that the code parses or formats (URL parameter values, error    *)
(* messages) are sequences of one-character strings, so that parseInt and  *)
(* toString are computed and not assumed.  A URLSearchParams object is a   *)
(* function from the keys that are present to their values.                *)
(*                                                                         *)
(* A handler is enabled when the component is mounted and the template     *)
(* renders the control that calls it.  changePage is offered every page of *)
(* RequestedPages, not only the pages the buttons carry, so that its own   *)
(* guard is exercised.  The reference-data requests (fetchPublishers,      *)
(* fetchCategories) touch no variable of the list controller and are left  *)
(* out; FilterIds stands for the option ids that the two selects offer.    *)
(***************************************************************************)
EXTENDS Integers, Sequences, FiniteSets, TLC

\* ------------------------------------------------------------------ bounds
\* Number of list requests one behaviour may issue.
MaxFetches == 2

\* ------------------------------------------------------------ text helpers
Digits == <<"0", "1", "2", "3", "4", "5", "6", "7", "8", "9">>

DigitValue(c) == CHOOSE d \in 0..9 : Digits[d + 1] = c

IsDigit(c) == \E d \in 0..9 : Digits[d + 1] = c

RECURSIVE natToString(_)
natToString(n) ==
    IF n < 10 THEN <<Digits[n + 1]>>
    ELSE natToString(n \div 10) \o <<Digits[(n % 10) + 1]>>

\* Number.prototype.toString for an integer.
toString(n) == IF n < 0 THEN <<"-">> \o natToString(-n) ELSE natToString(n)

\* A JavaScript number: NaN or an integer.
NaN == [nan |-> TRUE]
Num(n) == [nan |-> FALSE, value |-> n]

\* The longest prefix of s made of decimal digits.
RECURSIVE DigitPrefix(_)
DigitPrefix(s) ==
    IF s = <<>> \/ ~IsDigit(Head(s)) THEN <<>>
    ELSE <<Head(s)>> \o DigitPrefix(Tail(s))

RECURSIVE DigitsToNat(_, _)
DigitsToNat(s, acc) ==
    IF s = <<>> THEN acc ELSE DigitsToNat(Tail(s), acc * 10 + DigitValue(Head(s)))

\* Number.parseInt(s, 10): optional sign, then the leading digits; NaN when
\* there is no digit.
parseInt(s) ==
    LET signed == s # <<>> /\ Head(s) \in {"-", "+"}
        body   == IF signed THEN Tail(s) ELSE s
        ds     == DigitPrefix(body)
    IN  IF ds = <<>> THEN NaN
        ELSE IF signed /\ Head(s) = "-" THEN Num(0 - DigitsToNat(ds, 0))
        ELSE Num(DigitsToNat(ds, 0))

\* Number.isNaN
IsNaN(v) == v.nan

\* JavaScript truthiness of a string.
Truthy(s) == s # <<>>

\* ------------------------------------------------------------- data model
pageSizeOptions == {10, 20, 50}

\* Ids offered by the category and publisher selects; <<>> is '' (no filter).
FilterIds == {<<>>, <<"1">>}

\* let error: string | null = null
NoError == <<>>

\* Initial value of `pagination`.
DefaultPagination ==
    [page |-> 1, per_page |-> 20, total_items |-> 0, total_pages |-> 1,
     has_next |-> FALSE, has_previous |-> FALSE]

\* ------------------------------------------------- the collection endpoint
\* API items: a nested publisher/category object, null, or no such key;
\* starRating a number, null, or no such key.
ApiNull == [kind |-> "null"]
ApiMissing == [kind |-> "undefined"]
ApiObject(id, name) == [kind |-> "object", id |-> id, name |-> name]
ApiNumber(n) == [kind |-> "number", value |-> n]

FullItem ==
    [id |-> 1, title |-> "Aurora", description |-> "A strategy game",
     publisher |-> ApiObject(7, "Nova"), category |-> ApiObject(1, "Strategy"),
     starRating |-> ApiNumber(0)]

BareItem ==
    [id |-> 2, title |-> "Birch", description |-> "A card game",
     publisher |-> ApiNull, category |-> ApiMissing, starRating |-> ApiMissing]

\* The `games` arrays a response body may carry.
ApiGameLists == {<<>>, <<FullItem, BareItem>>}

CeilDiv(a, b) == (a + b - 1) \div b

\* Pagination metadata as the endpoint's contract defines it.
ServerPagination(p, size, items) ==
    LET pages == IF CeilDiv(items, size) < 1 THEN 1 ELSE CeilDiv(items, size)
    IN  [page |-> p, per_page |-> size, total_items |-> items,
         total_pages |-> pages, has_next |-> p < pages, has_previous |-> p > 1]

\* The metadata the server may answer with: an empty catalog, and a catalog
\* of 15 items in every page size and on every page it then has.
ServerPaginations ==
    {ServerPagination(1, 20, 0)}
    \cup { ServerPagination(t[1], t[2], 15) :
             t \in { u \in (1..2) \X pageSizeOptions : u[1] <= CeilDiv(15, u[2]) } }

\* The pages changePage is asked for: every page some server answer has, the
\* page below the first and the page above the last.
RequestedPages ==
    0 .. (1 + CHOOSE n \in { pg.total_pages : pg \in ServerPaginations } :
                \A pg \in ServerPaginations : pg.total_pages <= n)

\* A parsed 2xx body: JSON null, or an object in which `games` and
\* `pagination` may each be missing.
NullPayload == [kind |-> "null"]
Payload(hasGames, gs, hasPagination, pg) ==
    [kind |-> "object", hasGames |-> hasGames, games |-> gs,
     hasPagination |-> hasPagination, pagination |-> pg]

Payloads ==
    {NullPayload}
    \cup { Payload(TRUE, gs, TRUE, pg) : gs \in ApiGameLists, pg \in ServerPaginations }
    \cup { Payload(FALSE, <<>>, TRUE, ServerPagination(2, 10, 15)) }
    \cup { Payload(TRUE, <<FullItem, BareItem>>, FALSE, DefaultPagination) }

\* HTTP statuses the endpoint answers with, and their status texts.
HttpStatuses == {200, 404, 500}
StatusText(status) ==
    CASE status = 200 -> "OK"
      [] status = 404 -> "Not Found"
      [] status = 500 -> "Internal Server Error"

\* Response.ok
ResponseOk(status) == status >= 200 /\ status <= 299

\* Messages of the exceptions fetch() and response.json() throw.
TransportMessage == "Failed to fetch"
JsonMessage == "Unexpected end of JSON input"

\* ------------------------------------------------------------------ state
VARIABLES
    mounted,              \* onMount has run
    games,                \* export let games: Game[]
    loading,              \* let loading
    error,                \* let error: string | null
    selectedPublisherId,  \* let selectedPublisherId: string
    selectedCategoryId,   \* let selectedCategoryId: string
    pagination,           \* let pagination: Pagination
    currentPage,          \* let currentPage: number
    pageSize,             \* let pageSize: number
    location,             \* window.location.search, as URLSearchParams
    historyLength,        \* window.history.length
    locationReads,        \* how often window.location.search has been read
    requests,             \* every fetch('/api/games?...') issued, in order
    lastEvent             \* the handler or continuation that ran last, with its input

vars ==
    <<mounted, games, loading, error, selectedPublisherId, selectedCategoryId,
      pagination, currentPage, pageSize, location, historyLength, locationReads,
      requests, lastEvent>>

\* Query strings the page may be opened with.
InitialLocations ==
    { <<>>,
      [category_id |-> <<"1">>, page |-> <<"2">>, per_page |-> <<"5", "0">>],
      [publisher_id |-> <<>>, page |-> <<"-", "1">>, per_page |-> <<"1", "5">>],
      [publisher_id |-> <<"1">>, page |-> <<"x">>, per_page |-> <<"1", "0", "p">>] }

\* Back-stack length when the page is opened.
InitialHistoryLength == 1

NoEvent == [name |-> "none"]

Init ==
    /\ mounted = FALSE
    /\ games = <<>>
    /\ loading = TRUE
    /\ error = NoError
    /\ selectedPublisherId = <<>>
    /\ selectedCategoryId = <<>>
    /\ pagination = DefaultPagination
    /\ currentPage = 1
    /\ pageSize = 20
    /\ location \in InitialLocations
    /\ historyLength = InitialHistoryLength
    /\ locationReads = 0
    /\ requests = <<>>
    /\ lastEvent = NoEvent

\* ---------------------------------------------------------- URLStateSync
Has(params, key) == key \in DOMAIN params

\* params.get(key) ?? ''
GetOrEmpty(params, key) == IF Has(params, key) THEN params[key] ELSE <<>>

\* A parse that takes any numeric page, below 1 or not.
syncFiltersFromUrlAnyPage(params, size) ==
    LET urlPage    == GetOrEmpty(params, "page")
        urlPerPage == GetOrEmpty(params, "per_page")
        parsedPage == IF Truthy(urlPage) THEN parseInt(urlPage) ELSE Num(1)
        parsedPerPage == parseInt(urlPerPage)
    IN  [selectedCategoryId  |-> GetOrEmpty(params, "category_id"),
         selectedPublisherId |-> GetOrEmpty(params, "publisher_id"),
         currentPage |-> IF IsNaN(parsedPage) THEN 1 ELSE parsedPage.value,
         pageSize |-> IF Truthy(urlPerPage) /\ ~IsNaN(parsedPerPage)
                         /\ parsedPerPage.value \in pageSizeOptions
                      THEN parsedPerPage.value ELSE size]

\* A parse that takes any numeric per_page, whether or not it is offered.
syncFiltersFromUrlUnchecked(params, size) ==
    LET urlPage    == GetOrEmpty(params, "page")
        urlPerPage == GetOrEmpty(params, "per_page")
        parsedPage == IF Truthy(urlPage) THEN parseInt(urlPage) ELSE Num(1)
        parsedPerPage == parseInt(urlPerPage)
    IN  [selectedCategoryId  |-> GetOrEmpty(params, "category_id"),
         selectedPublisherId |-> GetOrEmpty(params, "publisher_id"),
         currentPage |-> IF IsNaN(parsedPage) THEN 1
                         ELSE IF parsedPage.value < 1 THEN 1 ELSE parsedPage.value,
         pageSize |-> IF Truthy(urlPerPage) /\ ~IsNaN(parsedPerPage)
                      THEN parsedPerPage.value ELSE size]

\* syncFiltersFromUrl: the values it assigns, from the query string `params`
\* and the page size in force.
syncFiltersFromUrl(params, size) ==
    LET urlPage    == GetOrEmpty(params, "page")
        urlPerPage == GetOrEmpty(params, "per_page")
        parsedPage == IF Truthy(urlPage) THEN parseInt(urlPage) ELSE Num(1)
        parsedPerPage == parseInt(urlPerPage)
    IN  [selectedCategoryId  |-> GetOrEmpty(params, "category_id"),
         selectedPublisherId |-> GetOrEmpty(params, "publisher_id"),
         currentPage |-> IF IsNaN(parsedPage) THEN 1
                         ELSE IF parsedPage.value < 1 THEN 1 ELSE parsedPage.value,
         pageSize |-> IF Truthy(urlPerPage) /\ ~IsNaN(parsedPerPage)
                         /\ parsedPerPage.value \in pageSizeOptions
                      THEN parsedPerPage.value ELSE size]

\* params.set / params.append of a key that is not yet present.
SetParam(params, key, value) == (key :> value) @@ params

\* A key that is written whether or not its value is empty.
SetAlways(params, key, value) == SetParam(params, key, value)

SetIfTruthy(params, key, value) ==
    IF Truthy(value) THEN SetParam(params, key, value) ELSE params

\* A URL that counts pages from zero.
updateBrowserUrlZeroBased(categoryId, publisherId, paginationState) ==
    SetParam(
      SetParam(
        SetIfTruthy(SetIfTruthy(<<>>, "category_id", categoryId),
                    "publisher_id", publisherId),
        "page", toString(paginationState.page - 1)),
      "per_page", toString(paginationState.per_page))

\* A URL that carries both filter keys, empty or not.
updateBrowserUrlEmptyKeys(categoryId, publisherId, paginationState) ==
    SetParam(
      SetParam(
        SetParam(SetParam(<<>>, "category_id", categoryId),
                 "publisher_id", publisherId),
        "page", toString(paginationState.page)),
      "per_page", toString(paginationState.per_page))

\* updateBrowserUrl: the query string it builds.
updateBrowserUrl(categoryId, publisherId, paginationState) ==
    SetParam(
      SetParam(
        SetIfTruthy(SetIfTruthy(<<>>, "category_id", categoryId),
                    "publisher_id", publisherId),
        "page", toString(paginationState.page)),
      "per_page", toString(paginationState.per_page))

\* window.history.pushState: the back-stack length afterwards.
pushState(length) == length + 1

\* window.history.replaceState: the back-stack length afterwards.
replaceState(length) == length

\* ------------------------------------------------------------ ListFetcher
\* The query fetchGames builds from the state it is called in.
BuildQuery(publisherId, categoryId, page, size) ==
    SetParam(
      SetParam(
        SetIfTruthy(SetIfTruthy(<<>>, "publisher_id", publisherId),
                    "category_id", categoryId),
        "page", toString(page)),
      "per_page", toString(size))

\* fetchGames without its first statement.
LoadingOnFetchKept == loading

\* `loading` once fetchGames has been entered.
LoadingOnFetch == TRUE

\* The state of the fetcher as the template shows it (its if / else-if chain).
FetcherState ==
    IF ~mounted THEN "Idle"
    ELSE IF loading THEN "Loading"
    ELSE IF error # NoError THEN "Failure"
    ELSE "Success"

\* fetchGames up to its first await: fetch(url) is issued and the handler
\* returns.  The arguments are the state the calling handler has just set;
\* `from` records the state of the fetcher the event found.
fetchGames(trigger, publisherId, categoryId, page, size) ==
    /\ loading' = LoadingOnFetch
    /\ requests' = Append(requests,
                     [trigger |-> trigger,
                      from |-> FetcherState,
                      query |-> BuildQuery(publisherId, categoryId, page, size),
                      status |-> "pending"])

InFlight == { i \in DOMAIN requests : requests[i].status \in {"pending", "parsing"} }

Settle(i, status) == [requests EXCEPT ![i].status = status]

\* `loading` after the finally block.
\* A finally block that leaves the flag as it is.
LoadingOnSettleKept == loading

LoadingOnSettle == FALSE

\* An error message that leaves the status out.
HttpErrorMessageNoStatus(status) == <<"Failed to fetch data">>

\* error = `Failed to fetch data: ${response.status} ${response.statusText}`
HttpErrorMessage(status) ==
    <<"Failed to fetch data: ">> \o toString(status) \o <<" ", StatusText(status)>>

\* A catch block that swallows the exception.
ExceptionSwallowed(message) == NoError

\* error = `Error: ${err.message}`
ExceptionMessage(message) == <<"Error: ", message>>

Undefined == [kind |-> "undefined"]
JsString(v) == [kind |-> "string", value |-> v]

\* game.publisher?.name and game.category?.name
OptionalName(nested) ==
    IF nested.kind = "object" THEN JsString(nested.name) ELSE Undefined

\* game.starRating ?? null
RatingOrNull(rating) == IF rating.kind = "number" THEN rating ELSE ApiNull

\* The mapping of one API item to the render shape.
FlattenGame(game) ==
    [id |-> game.id, title |-> game.title, description |-> game.description,
     publisher_name |-> OptionalName(game.publisher),
     category_name |-> OptionalName(game.category),
     starRating |-> RatingOrNull(game.starRating)]

FlattenGames(apiGames) == [k \in DOMAIN apiGames |-> FlattenGame(apiGames[k])]

\* payload?.games ?? []
ApiGamesOf(payload) ==
    IF payload.kind = "object" /\ payload.hasGames THEN payload.games ELSE <<>>

\* Server metadata merged into the page the client asked for.
ApiPaginationKeepingPage(payload, current) ==
    IF payload.kind = "object" /\ payload.hasPagination
    THEN [payload.pagination EXCEPT !.page = currentPage]
    ELSE current

\* payload?.pagination ?? pagination
ApiPaginationOf(payload, current) ==
    IF payload.kind = "object" /\ payload.hasPagination THEN payload.pagination
    ELSE current

\* ------------------------------------------------------------ the template
\* The branch of the template that is rendered.
View ==
    IF loading THEN "loading"
    ELSE IF error # NoError THEN "error"
    ELSE IF Len(games) = 0 THEN "empty"
    ELSE "list"

\* The page-size select and the pagination buttons are part of the list
\* branch; the Clear Filters button is rendered while a filter is selected;
\* the two filter selects are always rendered.
PaginationControlsRendered == View = "list"

ClearFiltersRendered == Truthy(selectedCategoryId) \/ Truthy(selectedPublisherId)

\* ----------------------------------------------------------------- events
\* A mount that issues the first request before it reads the URL.
MountFetchingFirst ==
    /\ ~mounted
    /\ LET synced == syncFiltersFromUrl(location, pageSize)
       IN  /\ selectedCategoryId' = synced.selectedCategoryId
           /\ selectedPublisherId' = synced.selectedPublisherId
           /\ currentPage' = synced.currentPage
           /\ pageSize' = synced.pageSize
           /\ fetchGames("mount", selectedPublisherId, selectedCategoryId,
                         currentPage, pageSize)
    /\ mounted' = TRUE
    /\ locationReads' = locationReads + 1
    /\ lastEvent' = [name |-> "mount"]
    /\ UNCHANGED <<games, error, pagination, location, historyLength>>

\* onMount: syncFiltersFromUrl(), then the first fetchGames().
Mount ==
    /\ ~mounted
    /\ LET synced == syncFiltersFromUrl(location, pageSize)
       IN  /\ selectedCategoryId' = synced.selectedCategoryId
           /\ selectedPublisherId' = synced.selectedPublisherId
           /\ currentPage' = synced.currentPage
           /\ pageSize' = synced.pageSize
           /\ fetchGames("mount", synced.selectedPublisherId,
                         synced.selectedCategoryId, synced.currentPage,
                         synced.pageSize)
    /\ mounted' = TRUE
    /\ locationReads' = locationReads + 1
    /\ lastEvent' = [name |-> "mount"]
    /\ UNCHANGED <<games, error, pagination, location, historyLength>>

\* A filter change that stays on the page it was on.
PageKeptAfterFilterChange(page) == page

\* The page handleFilterChange and clearFilters continue with.
PageAfterFilterChange(page) == 1

\* A pick in the category or publisher select: bind:value stores it, then
\* on:change runs handleFilterChange.
handleFilterChange(dimension, value) ==
    /\ mounted
    /\ Len(requests) < MaxFetches
    /\ \/ /\ dimension = "category"
          /\ value # selectedCategoryId
          /\ selectedCategoryId' = value
          /\ UNCHANGED selectedPublisherId
       \/ /\ dimension = "publisher"
          /\ value # selectedPublisherId
          /\ selectedPublisherId' = value
          /\ UNCHANGED selectedCategoryId
    /\ currentPage' = PageAfterFilterChange(currentPage)
    /\ fetchGames("filter", selectedPublisherId', selectedCategoryId',
                  currentPage', pageSize)
    /\ lastEvent' = [name |-> "filter", dimension |-> dimension, value |-> value]
    /\ UNCHANGED <<mounted, games, error, pagination, pageSize, location,
                   historyLength, locationReads>>

clearFilters ==
    /\ mounted
    /\ ClearFiltersRendered
    /\ Len(requests) < MaxFetches
    /\ selectedPublisherId' = <<>>
    /\ selectedCategoryId' = <<>>
    /\ currentPage' = PageAfterFilterChange(currentPage)
    /\ fetchGames("clearFilters", selectedPublisherId', selectedCategoryId',
                  currentPage', pageSize)
    /\ lastEvent' = [name |-> "clearFilters"]
    /\ UNCHANGED <<mounted, games, error, pagination, pageSize, location,
                   historyLength, locationReads>>

\* A range check without its upper end.
PageChangeAcceptedUnbounded(page, current, totalPages) ==
    page # current /\ page >= 1

\* A range check that starts one page too high.
PageChangeAcceptedAboveFirst(page, current, totalPages) ==
    page # current /\ page > 1 /\ page <= totalPages

\* The condition under which changePage acts.
PageChangeAccepted(page, current, totalPages) ==
    page # current /\ page >= 1 /\ page <= totalPages

\* A page change that moves the stored pagination to the new page itself.
changePageOptimistic(page) ==
    /\ mounted
    /\ PaginationControlsRendered
    /\ lastEvent' = [name |-> "changePage", page |-> page]
    /\ IF PageChangeAccepted(page, currentPage, pagination.total_pages)
       THEN /\ Len(requests) < MaxFetches
            /\ currentPage' = page
            /\ pagination' = [pagination EXCEPT
                                !.page = page,
                                !.has_previous = page > 1,
                                !.has_next = page < pagination.total_pages]
            /\ fetchGames("changePage", selectedPublisherId, selectedCategoryId,
                          currentPage', pageSize)
            /\ UNCHANGED <<mounted, games, error, selectedPublisherId,
                           selectedCategoryId, pageSize, location,
                           historyLength, locationReads>>
       ELSE UNCHANGED <<mounted, games, loading, error, selectedPublisherId,
                        selectedCategoryId, pagination, currentPage, pageSize,
                        location, historyLength, locationReads, requests>>

changePage(page) ==
    /\ mounted
    /\ PaginationControlsRendered
    /\ lastEvent' = [name |-> "changePage", page |-> page]
    /\ IF PageChangeAccepted(page, currentPage, pagination.total_pages)
       THEN /\ Len(requests) < MaxFetches
            /\ currentPage' = page
            /\ fetchGames("changePage", selectedPublisherId, selectedCategoryId,
                          currentPage', pageSize)
            /\ UNCHANGED <<mounted, games, error, selectedPublisherId,
                           selectedCategoryId, pagination, pageSize, location,
                           historyLength, locationReads>>
       ELSE UNCHANGED <<mounted, games, loading, error, selectedPublisherId,
                        selectedCategoryId, pagination, currentPage, pageSize,
                        location, historyLength, locationReads, requests>>

\* A page-size change that stays on the page it was on.
PageKeptAfterSizeChange(page) == page

\* The page changePageSize continues with.
PageAfterSizeChange(page) == 1

\* changePageSize that also writes the URL before the server has answered.
changePageSizeWritingUrl(size) ==
    /\ mounted
    /\ PaginationControlsRendered
    /\ Len(requests) < MaxFetches
    /\ pageSize' = size
    /\ currentPage' = PageAfterSizeChange(currentPage)
    /\ fetchGames("changePageSize", selectedPublisherId, selectedCategoryId,
                  currentPage', pageSize')
    /\ location' = updateBrowserUrl(selectedCategoryId, selectedPublisherId,
                                    [page |-> currentPage', per_page |-> pageSize'])
    /\ lastEvent' = [name |-> "changePageSize", size |-> size]
    /\ UNCHANGED <<mounted, games, error, selectedPublisherId, selectedCategoryId,
                   pagination, historyLength, locationReads>>

changePageSize(size) ==
    /\ mounted
    /\ PaginationControlsRendered
    /\ Len(requests) < MaxFetches
    /\ pageSize' = size
    /\ currentPage' = PageAfterSizeChange(currentPage)
    /\ fetchGames("changePageSize", selectedPublisherId, selectedCategoryId,
                  currentPage', pageSize')
    /\ lastEvent' = [name |-> "changePageSize", size |-> size]
    /\ UNCHANGED <<mounted, games, error, selectedPublisherId, selectedCategoryId,
                   pagination, location, historyLength, locationReads>>

\* ------------------------------------------- continuations of fetchGames
\* A catch block that issues the request again.
fetchGamesRejectedRetrying(i) ==
    /\ i \in DOMAIN requests
    /\ requests[i].status = "pending"
    /\ Len(requests) < MaxFetches
    /\ error' = ExceptionMessage(TransportMessage)
    /\ loading' = LoadingOnFetch
    /\ requests' = Append(Settle(i, "settled"),
                          [requests[i] EXCEPT !.from = "Failure"])
    /\ lastEvent' = [name |-> "rejected", request |-> i]
    /\ UNCHANGED <<mounted, games, selectedPublisherId, selectedCategoryId,
                   pagination, currentPage, pageSize, location, historyLength,
                   locationReads>>

\* await fetch(url) throws: catch, then finally.
fetchGamesRejected(i) ==
    /\ i \in DOMAIN requests
    /\ requests[i].status = "pending"
    /\ error' = ExceptionMessage(TransportMessage)
    /\ loading' = LoadingOnSettle
    /\ requests' = Settle(i, "settled")
    /\ lastEvent' = [name |-> "rejected", request |-> i]
    /\ UNCHANGED <<mounted, games, selectedPublisherId, selectedCategoryId,
                   pagination, currentPage, pageSize, location, historyLength,
                   locationReads>>

\* await fetch(url) yields a response: with response.ok the handler awaits
\* response.json(); otherwise it takes the else branch, then finally.
fetchGamesResponse(i, status) ==
    /\ i \in DOMAIN requests
    /\ requests[i].status = "pending"
    /\ lastEvent' = [name |-> "response", request |-> i, status |-> status]
    /\ IF ResponseOk(status)
       THEN /\ requests' = Settle(i, "parsing")
            /\ UNCHANGED <<loading, error>>
       ELSE /\ error' = HttpErrorMessage(status)
            /\ loading' = LoadingOnSettle
            /\ requests' = Settle(i, "settled")
    /\ UNCHANGED <<mounted, games, selectedPublisherId, selectedCategoryId,
                   pagination, currentPage, pageSize, location, historyLength,
                   locationReads>>

\* A success branch that drops the response of any request but the one issued
\* last.
fetchGamesJsonIfLatest(i, payload) ==
    /\ i \in DOMAIN requests
    /\ requests[i].status = "parsing"
    /\ IF i = Len(requests)
       THEN /\ games' = FlattenGames(ApiGamesOf(payload))
            /\ pagination' = ApiPaginationOf(payload, pagination)
            /\ currentPage' = pagination'.page
            /\ pageSize' = pagination'.per_page
            /\ location' = updateBrowserUrl(selectedCategoryId, selectedPublisherId,
                                            pagination')
            /\ historyLength' = replaceState(historyLength)
            /\ loading' = LoadingOnSettle
       ELSE UNCHANGED <<games, pagination, currentPage, pageSize, location,
                        historyLength, loading>>
    /\ requests' = Settle(i, "settled")
    /\ lastEvent' = [name |-> "json", request |-> i, payload |-> payload]
    /\ UNCHANGED <<mounted, error, selectedPublisherId, selectedCategoryId,
                   locationReads>>

\* A success branch that leaves currentPage and pageSize as the request set
\* them.
fetchGamesJsonKeepingRequest(i, payload) ==
    /\ i \in DOMAIN requests
    /\ requests[i].status = "parsing"
    /\ games' = FlattenGames(ApiGamesOf(payload))
    /\ pagination' = ApiPaginationOf(payload, pagination)
    /\ location' = updateBrowserUrl(selectedCategoryId, selectedPublisherId,
                                    pagination')
    /\ historyLength' = replaceState(historyLength)
    /\ loading' = LoadingOnSettle
    /\ requests' = Settle(i, "settled")
    /\ lastEvent' = [name |-> "json", request |-> i, payload |-> payload]
    /\ UNCHANGED <<mounted, error, selectedPublisherId, selectedCategoryId,
                   currentPage, pageSize, locationReads>>

\* A success branch that writes the URL from the pagination it had before
\* the response.
fetchGamesJsonUrlFirst(i, payload) ==
    /\ i \in DOMAIN requests
    /\ requests[i].status = "parsing"
    /\ games' = FlattenGames(ApiGamesOf(payload))
    /\ pagination' = ApiPaginationOf(payload, pagination)
    /\ currentPage' = pagination'.page
    /\ pageSize' = pagination'.per_page
    /\ location' = updateBrowserUrl(selectedCategoryId, selectedPublisherId,
                                    pagination)
    /\ historyLength' = replaceState(historyLength)
    /\ loading' = LoadingOnSettle
    /\ requests' = Settle(i, "settled")
    /\ lastEvent' = [name |-> "json", request |-> i, payload |-> payload]
    /\ UNCHANGED <<mounted, error, selectedPublisherId, selectedCategoryId,
                   locationReads>>

\* await response.json() yields the payload: the success branch, then finally.
fetchGamesJson(i, payload) ==
    /\ i \in DOMAIN requests
    /\ requests[i].status = "parsing"
    /\ games' = FlattenGames(ApiGamesOf(payload))
    /\ pagination' = ApiPaginationOf(payload, pagination)
    /\ currentPage' = pagination'.page
    /\ pageSize' = pagination'.per_page
    /\ location' = updateBrowserUrl(selectedCategoryId, selectedPublisherId,
                                    pagination')
    /\ historyLength' = replaceState(historyLength)
    /\ loading' = LoadingOnSettle
    /\ requests' = Settle(i, "settled")
    /\ lastEvent' = [name |-> "json", request |-> i, payload |-> payload]
    /\ UNCHANGED <<mounted, error, selectedPublisherId, selectedCategoryId,
                   locationReads>>

\* A catch block that also empties the list.
fetchGamesJsonThrowsClearingList(i) ==
    /\ i \in DOMAIN requests
    /\ requests[i].status = "parsing"
    /\ error' = ExceptionMessage(JsonMessage)
    /\ games' = <<>>
    /\ loading' = LoadingOnSettle
    /\ requests' = Settle(i, "settled")
    /\ lastEvent' = [name |-> "jsonThrows", request |-> i]
    /\ UNCHANGED <<mounted, selectedPublisherId, selectedCategoryId,
                   pagination, currentPage, pageSize, location, historyLength,
                   locationReads>>

\* await response.json() throws: catch, then finally.
fetchGamesJsonThrows(i) ==
    /\ i \in DOMAIN requests
    /\ requests[i].status = "parsing"
    /\ error' = ExceptionMessage(JsonMessage)
    /\ loading' = LoadingOnSettle
    /\ requests' = Settle(i, "settled")
    /\ lastEvent' = [name |-> "jsonThrows", request |-> i]
    /\ UNCHANGED <<mounted, games, selectedPublisherId, selectedCategoryId,
                   pagination, currentPage, pageSize, location, historyLength,
                   locationReads>>

\* ---------------------------------------------------------- specification
Next ==
    \/ Mount
    \/ \E dimension \in {"category", "publisher"}, value \in FilterIds :
          handleFilterChange(dimension, value)
    \/ clearFilters
    \/ \E page \in RequestedPages : changePage(page)
    \/ \E size \in pageSizeOptions : changePageSize(size)
    \/ \E i \in 1..MaxFetches : fetchGamesRejected(i)
    \/ \E i \in 1..MaxFetches, status \in HttpStatuses : fetchGamesResponse(i, status)
    \/ \E i \in 1..MaxFetches, payload \in Payloads : fetchGamesJson(i, payload)
    \/ \E i \in 1..MaxFetches : fetchGamesJsonThrows(i)

Spec == Init /\ [][Next]_vars

\* The same program under the scheduling the browser provides: onMount runs
\* once the component is in the document, and every request that was issued
\* is answered or fails, after which the continuation of its fetchGames runs.
\* The user triggers at most MaxFetches - 1 events that fetch.  The bodies
\* answered are an unusable one and the first of two pages.
FairPayloads ==
    { NullPayload,
      Payload(TRUE, <<FullItem, BareItem>>, TRUE, ServerPagination(1, 10, 15)) }

Answered(i) ==
    \/ fetchGamesRejected(i)
    \/ \E status \in HttpStatuses : fetchGamesResponse(i, status)
    \/ \E payload \in FairPayloads : fetchGamesJson(i, payload)
    \/ fetchGamesJsonThrows(i)

FairNext ==
    \/ Mount
    \/ \E dimension \in {"category", "publisher"}, value \in FilterIds :
          handleFilterChange(dimension, value)
    \/ clearFilters
    \/ \E page \in RequestedPages : changePage(page)
    \/ \E size \in pageSizeOptions : changePageSize(size)
    \/ \E i \in 1..MaxFetches : Answered(i)

Fairness ==
    /\ WF_vars(Mount)
    /\ \A i \in 1..MaxFetches : WF_vars(Answered(i))

FairSpec == Init /\ [][FairNext]_vars /\ Fairness

\* --------------------------------------------------------- derived values
\* const windowSize = 2
windowSize == 2

\* if (current > windowSize + 1): an ellipsis one page too early.
LeadingEllipsisEarly(current) == current > windowSize + 1

\* if (current > windowSize + 2)
LeadingEllipsis(current) == current > windowSize + 2

\* if (current < total - windowSize - 2): an ellipsis one page too late.
TrailingEllipsisLate(current, total) == current < total - windowSize - 2

\* if (current < total - windowSize - 1)
TrailingEllipsis(current, total) == current < total - windowSize - 1

\* A window that may start at page 1.
WindowFirstFromOne(current) == IF current - windowSize > 1 THEN current - windowSize ELSE 1

\* Math.max(2, current - windowSize)
WindowFirst(current) == IF current - windowSize > 2 THEN current - windowSize ELSE 2

\* Math.min(total - 1, current + windowSize)
WindowLast(current, total) ==
    IF current + windowSize < total - 1 THEN current + windowSize ELSE total - 1

\* Entries of paginationItems: a page number, or the string '...'.
PageItem(n) == [kind |-> "page", number |-> n]
Ellipsis == [kind |-> "ellipsis"]

\* $: paginationItems, recomputed from `pagination`.
paginationItems ==
    LET total   == pagination.total_pages
        current == pagination.page
        first   == WindowFirst(current)
        last    == WindowLast(current, total)
    IN  IF total <= 7 THEN [i \in 1..total |-> PageItem(i)]
        ELSE <<PageItem(1)>>
             \o (IF LeadingEllipsis(current) THEN <<Ellipsis>> ELSE <<>>)
             \o [i \in 1..(last - first + 1) |-> PageItem(first + i - 1)]
             \o (IF TrailingEllipsis(current, total) THEN <<Ellipsis>> ELSE <<>>)
             \o <<PageItem(total)>>

\* $: totalItems = pagination.total_items
totalItems == pagination.total_items

\* $: showingStart
showingStart ==
    IF totalItems = 0 THEN 0 ELSE (pagination.page - 1) * pagination.per_page + 1

\* A last item that is not clamped to the number of items.
showingEndUnclamped ==
    IF totalItems = 0 THEN 0 ELSE pagination.page * pagination.per_page

\* $: showingEnd, with Math.min
showingEnd ==
    IF totalItems = 0 THEN 0
    ELSE IF pagination.page * pagination.per_page < totalItems
         THEN pagination.page * pagination.per_page
         ELSE totalItems

\* ------------------------------------- specification over a wide input set
\* One list request, with every combination of query-string parameters the
\* page may be opened with and every page of catalogs of many sizes.
MaxWidePages == 11

ParamKeys == {"category_id", "publisher_id", "page", "per_page"}

\* Values of the page and per_page parameters: empty, valid, out of range,
\* not a number, and a number followed by other characters.
PageTexts ==
    { <<>>, <<"0">>, <<"-", "1">>, <<"x">>, <<"2">>, <<"2", "x">>, <<"1", "2">> }
PerPageTexts ==
    { <<>>, <<"1", "0">>, <<"2", "0">>, <<"5", "0">>, <<"1", "5">>, <<"x">>,
      <<"1", "0", "p">> }

WideLocations ==
    { [k \in K |-> vals[k]] :
        K \in SUBSET ParamKeys,
        vals \in [category_id : FilterIds, publisher_id : FilterIds,
                  page : PageTexts, per_page : PerPageTexts] }

\* Catalog sizes: empty, and 5, 15, ... items.
WideCatalogs == {0} \cup { 10 * k - 5 : k \in 1..MaxWidePages }

WidePaginations ==
    { ServerPagination(t[1], t[2], t[3]) :
        t \in { u \in (1..MaxWidePages) \X pageSizeOptions \X WideCatalogs :
                  u[1] = 1 \/ u[1] <= CeilDiv(u[3], u[2]) } }

WidePayloads ==
    {NullPayload}
    \cup { Payload(TRUE, <<FullItem, BareItem>>, TRUE, pg) : pg \in WidePaginations }
    \cup { Payload(FALSE, <<>>, TRUE, ServerPagination(2, 10, 15)) }
    \cup { Payload(TRUE, <<FullItem, BareItem>>, FALSE, DefaultPagination) }

InitWide ==
    /\ mounted = FALSE
    /\ games = <<>>
    /\ loading = TRUE
    /\ error = NoError
    /\ selectedPublisherId = <<>>
    /\ selectedCategoryId = <<>>
    /\ pagination = DefaultPagination
    /\ currentPage = 1
    /\ pageSize = 20
    /\ location \in WideLocations
    /\ historyLength = InitialHistoryLength
    /\ locationReads = 0
    /\ requests = <<>>
    /\ lastEvent = NoEvent

NextWide ==
    \/ Mount
    \/ fetchGamesRejected(1)
    \/ \E status \in HttpStatuses : fetchGamesResponse(1, status)
    \/ \E payload \in WidePayloads : fetchGamesJson(1, payload)
    \/ fetchGamesJsonThrows(1)

SpecWide == InitWide /\ [][NextWide]_vars

TypeOK ==
    /\ mounted \in BOOLEAN
    /\ loading \in BOOLEAN
    /\ selectedPublisherId \in FilterIds
    /\ selectedCategoryId \in FilterIds
    /\ error = NoError \/ Len(error) >= 2
    /\ pagination \in ServerPaginations \cup WidePaginations \cup {DefaultPagination}
    /\ currentPage \in Nat \ {0}
    /\ pageSize \in pageSizeOptions
    /\ historyLength \in Nat
    /\ locationReads \in 0..1
    /\ Len(requests) <= MaxFetches
    /\ \A i \in DOMAIN requests :
         requests[i].status \in {"pending", "parsing", "settled"}

\* ------------------------------------------------------- claim helpers
\* `part` occurs in `whole` as a contiguous run.
Contains(whole, part) ==
    \E k \in 0..(Len(whole) - Len(part)) :
        \A j \in 1..Len(part) : whole[k + j] = part[j]

\* The filter keys of a query string, unset read as ''.
FiltersOf(params) ==
    <<GetOrEmpty(params, "category_id"), GetOrEmpty(params, "publisher_id")>>

CurrentFilters == <<selectedCategoryId, selectedPublisherId>>

\* The payload carries both the games list and the pagination object.
FullPayload(payload) ==
    payload.kind = "object" /\ payload.hasGames /\ payload.hasPagination

UserTriggers == {"filter", "clearFilters", "changePage", "changePageSize"}

\* ------------------------------------------------------------------ C1
\* C1: the response that arrives is applied whichever request it answers:
\* after the success branch has run for a request that is not the one issued
\* last, the item list and the pagination are those of that response.
C1_LastArrivedWins ==
    (lastEvent.name = "json" /\ lastEvent.request < Len(requests)
       /\ FullPayload(lastEvent.payload))
    => /\ Len(games) = Len(lastEvent.payload.games)
       /\ \A k \in DOMAIN games : games[k].id = lastEvent.payload.games[k].id
       /\ pagination = lastEvent.payload.pagination

\* No fetch is in flight, and the list and pagination on display answer a
\* request built with other filters than the ones now selected.
C1_StaleDisplayed ==
    /\ InFlight = {}
    /\ lastEvent.name = "json"
    /\ lastEvent.request < Len(requests)
    /\ FullPayload(lastEvent.payload)
    /\ FiltersOf(requests[lastEvent.request].query) # CurrentFilters
    /\ FiltersOf(requests[Len(requests)].query) = CurrentFilters
    /\ View = "list"
    /\ pagination = lastEvent.payload.pagination

\* ------------------------------------------------------------------ C2
\* C2: when a fetch that a user action issued from Failure succeeds, the view
\* is in Success: the list (or the empty-list notice) is rendered and no
\* failure message is shown.
C2_SuccessShowsNoError ==
    (lastEvent.name = "json" /\ requests[lastEvent.request].from = "Failure"
       /\ requests[lastEvent.request].trigger \in UserTriggers
       /\ FullPayload(lastEvent.payload))
    => /\ error = NoError
       /\ View = (IF Len(lastEvent.payload.games) > 0 THEN "list" ELSE "empty")

\* ------------------------------------------------------------------ C3
\* C3: every triggering event (mount, filter pick, clearFilters, accepted page
\* change, page-size change) issues one request and leaves loading = true,
\* whatever loading and error were before.
C3_TriggerSetsLoading ==
    [][ ( \/ lastEvent'.name \in {"mount", "filter", "clearFilters", "changePageSize"}
          \/ /\ lastEvent'.name = "changePage"
             /\ lastEvent'.page # currentPage
             /\ lastEvent'.page >= 1
             /\ lastEvent'.page <= pagination.total_pages )
        => (loading' = TRUE /\ Len(requests') = Len(requests) + 1) ]_vars

\* A user event has re-triggered the fetcher from Failure.
C3_RetriggeredFromFailure ==
    /\ lastEvent.name \in {"filter", "clearFilters", "changePageSize"}
    /\ requests[Len(requests)].from = "Failure"
    /\ requests[Len(requests)].status = "pending"
    /\ loading

\* ------------------------------------------------------------------ C4
\* C4: while a fetch is unresolved, loading is true, whatever else happens.
C4_LoadingWhileUnresolved == (InFlight # {}) => loading

\* ------------------------------------------------------------------ C5
\* C5: a non-2xx response leaves the fetcher in Failure with a message that
\* contains the status code and the status text, and the error branch, not the
\* list, is rendered.
C5_HttpFailure ==
    (lastEvent.name = "response"
       /\ (lastEvent.status < 200 \/ lastEvent.status > 299))
    => /\ Contains(error, toString(lastEvent.status))
       /\ Contains(error, <<StatusText(lastEvent.status)>>)
       /\ ~loading
       /\ View = "error"
       /\ requests[lastEvent.request].status = "settled"

\* A non-2xx response has arrived while items of an earlier fetch are stored.
C5_FailureOverStoredItems ==
    /\ lastEvent.name = "response"
    /\ lastEvent.status = 500
    /\ Len(games) > 0
    /\ View = "error"

\* ------------------------------------------------------------------ C6
\* C6 as stated: a transport exception, an unparseable 2xx body, and a parsed
\* 2xx body without the games list or without the pagination object all leave
\* the fetcher in Failure with the exception's message.
C6_MalformedBodyFails ==
    ( \/ lastEvent.name \in {"rejected", "jsonThrows"}
      \/ (lastEvent.name = "json" /\ ~FullPayload(lastEvent.payload)) )
    => (error # NoError /\ error[1] = "Error: " /\ View = "error")

\* C6 as amended: a transport exception or an unparseable 2xx body leaves the
\* fetcher in Failure with the message "Error: " followed by the exception's
\* message; a parsed body without the games list or without the pagination
\* object raises nothing: the error is left as it was, a missing list is read
\* as empty and a missing pagination object keeps the stored pagination.
C6_ExceptionFails ==
    [][ /\ lastEvent'.name = "rejected"
           => (error' = <<"Error: ", TransportMessage>> /\ ~loading'
               /\ View' = "error")
        /\ lastEvent'.name = "jsonThrows"
           => (error' = <<"Error: ", JsonMessage>> /\ ~loading'
               /\ View' = "error")
        /\ (lastEvent'.name = "json" /\ ~FullPayload(lastEvent'.payload))
           => /\ error' = error
              /\ ~loading'
              /\ (lastEvent'.payload.kind = "null" \/ ~lastEvent'.payload.hasGames)
                   => games' = <<>>
              /\ (lastEvent'.payload.kind = "null"
                    \/ ~lastEvent'.payload.hasPagination)
                   => pagination' = pagination ]_vars

\* response.json() has thrown on a 2xx response and the error is shown.
C6_UnparseableBodyShown ==
    /\ lastEvent.name = "jsonThrows"
    /\ error = <<"Error: ", JsonMessage>>
    /\ View = "error"

\* ------------------------------------------------------------------ C7
\* C7: after the success branch has run on a body with games and pagination,
\* the item list is the flattened response list, pagination, currentPage and
\* pageSize are the server's, and the URL carries the server's page and
\* per_page, also when the server's page is not the requested one.
C7_SuccessReplacesState ==
    (lastEvent.name = "json" /\ FullPayload(lastEvent.payload))
    => LET body == lastEvent.payload
       IN  /\ Len(games) = Len(body.games)
           /\ \A k \in DOMAIN games :
                /\ games[k].id = body.games[k].id
                /\ games[k].title = body.games[k].title
                /\ games[k].description = body.games[k].description
                /\ games[k].publisher_name =
                     (IF body.games[k].publisher.kind = "object"
                      THEN JsString(body.games[k].publisher.name) ELSE Undefined)
                /\ games[k].category_name =
                     (IF body.games[k].category.kind = "object"
                      THEN JsString(body.games[k].category.name) ELSE Undefined)
                /\ games[k].starRating =
                     (IF body.games[k].starRating.kind = "number"
                      THEN body.games[k].starRating ELSE ApiNull)
           /\ pagination = body.pagination
           /\ currentPage = body.pagination.page
           /\ pageSize = body.pagination.per_page
           /\ Has(location, "page") /\ Has(location, "per_page")
           /\ parseInt(location["page"]) = Num(body.pagination.page)
           /\ parseInt(location["per_page"]) = Num(body.pagination.per_page)

\* The server answered with another page than the request asked for, and a
\* list was stored before.
C7_ServerCorrectedPage ==
    /\ lastEvent.name = "json"
    /\ FullPayload(lastEvent.payload)
    /\ requests[lastEvent.request].query["page"]
         # toString(lastEvent.payload.pagination.page)
    /\ currentPage = lastEvent.payload.pagination.page
    /\ Len(games) = 2
    /\ lastEvent.request = 2

C9_HistoryLengthKept == historyLength = InitialHistoryLength

\* The URL has been written twice, after a user's change.
C9_UrlWrittenAfterChange ==
    /\ lastEvent.name = "json"
    /\ lastEvent.request = 2
    /\ requests[1].status = "settled"
    /\ requests[2].trigger \in UserTriggers
    /\ location = updateBrowserUrl(selectedCategoryId, selectedPublisherId, pagination)
    /\ historyLength = InitialHistoryLength

\* ----------------------------------------------------------------- C10
\* C10: a filter pick and clearFilters set the page to 1 before they fetch:
\* every request they issue carries page=1, and right after them currentPage
\* is 1.
C10_FilterChangeResetsPage ==
    /\ \A i \in DOMAIN requests :
         requests[i].trigger \in {"filter", "clearFilters"}
           => (Has(requests[i].query, "page") /\ requests[i].query["page"] = <<"1">>)
    /\ lastEvent.name \in {"filter", "clearFilters"} => currentPage = 1

\* A filter was picked while the current page was not 1.
C10_FilterPickedOffPageOne ==
    /\ lastEvent.name = "filter"
    /\ Len(requests) = 2
    /\ requests[1].status = "pending"
    /\ requests[1].query["page"] = <<"2">>
    /\ requests[2].query["page"] = <<"1">>

\* ----------------------------------------------------------------- C11
\* C11: clearFilters leaves both filters unset, and the request it issues has
\* neither a category_id nor a publisher_id key.
C11_ClearFiltersUnsetsBoth ==
    /\ \A i \in DOMAIN requests :
         requests[i].trigger = "clearFilters"
           => (~Has(requests[i].query, "category_id")
               /\ ~Has(requests[i].query, "publisher_id"))
    /\ lastEvent.name = "clearFilters"
         => (selectedCategoryId = <<>> /\ selectedPublisherId = <<>>)

\* clearFilters has run while a filter from the URL was selected.
C11_ClearedSelectedFilter ==
    /\ lastEvent.name = "clearFilters"
    /\ Len(requests) = 2
    /\ Has(requests[1].query, "category_id")
    /\ requests[2].trigger = "clearFilters"
    /\ DOMAIN requests[2].query = {"page", "per_page"}

\* ----------------------------------------------------------------- C12
\* C12: changePage(requested) with requested equal to the current page, below
\* 1 or above total_pages changes no variable of the component and issues no
\* request.
C12_ChangePageNoOp ==
    [][ ( /\ lastEvent'.name = "changePage"
          /\ \/ lastEvent'.page = currentPage
             \/ lastEvent'.page < 1
             \/ lastEvent'.page > pagination.total_pages )
        => UNCHANGED <<mounted, games, loading, error, selectedPublisherId,
                       selectedCategoryId, pagination, currentPage, pageSize,
                       location, historyLength, locationReads, requests>> ]_vars

\* changePage has been called with the page after the last one.
C12_PageAboveLastRequested ==
    /\ lastEvent.name = "changePage"
    /\ lastEvent.page = pagination.total_pages + 1
    /\ lastEvent.page # currentPage
    /\ Len(requests) = 1
    /\ View = "list"

\* ----------------------------------------------------------------- C13
\* C13: changePage(requested) with requested other than the current page and
\* within 1..total_pages sets currentPage to requested and issues exactly one
\* request, for that page, with the filters and the page size left as they
\* were.
C13_ChangePageAccepted ==
    [][ ( /\ lastEvent'.name = "changePage"
          /\ lastEvent'.page # currentPage
          /\ lastEvent'.page >= 1
          /\ lastEvent'.page <= pagination.total_pages )
        => /\ currentPage' = lastEvent'.page
           /\ Len(requests') = Len(requests) + 1
           /\ SubSeq(requests', 1, Len(requests)) = requests
           /\ requests'[Len(requests')].query["page"] = toString(lastEvent'.page)
           /\ requests'[Len(requests')].query["per_page"] = toString(pageSize)
           /\ FiltersOf(requests'[Len(requests')].query)
                = <<selectedCategoryId, selectedPublisherId>>
           /\ UNCHANGED <<selectedPublisherId, selectedCategoryId, pageSize,
                          pagination, games>> ]_vars

\* An accepted page change, with a filter selected.
C13_PageChangedUnderFilter ==
    /\ lastEvent.name = "changePage"
    /\ Len(requests) = 2
    /\ requests[2].trigger = "changePage"
    /\ requests[2].status = "pending"
    /\ currentPage = lastEvent.page
    /\ currentPage # pagination.page
    /\ selectedCategoryId # <<>>

\* ----------------------------------------------------------------- C14
\* C14: changePageSize(newSize) sets pageSize to newSize and currentPage to 1
\* and issues one request with page=1 and per_page=newSize, with the filters
\* left as they were.
C14_ChangePageSize ==
    [][ lastEvent'.name = "changePageSize"
        => /\ pageSize' = lastEvent'.size
           /\ currentPage' = 1
           /\ Len(requests') = Len(requests) + 1
           /\ requests'[Len(requests')].query["page"] = <<"1">>
           /\ requests'[Len(requests')].query["per_page"] = toString(lastEvent'.size)
           /\ FiltersOf(requests'[Len(requests')].query)
                = <<selectedCategoryId, selectedPublisherId>>
           /\ UNCHANGED <<selectedPublisherId, selectedCategoryId>> ]_vars

\* The page size was changed on page 2.
C14_SizeChangedOffPageOne ==
    /\ lastEvent.name = "changePageSize"
    /\ pagination.page = 2
    /\ lastEvent.size # pagination.per_page
    /\ currentPage = 1
    /\ requests[Len(requests)].status = "pending"

\* ----------------------------------------------------------------- C18
\* C18: a request is issued only by the mount or by a user event, one per
\* event; no continuation of fetchGames (success or failure) issues one.
C18_NoAutomaticRetry ==
    [][ /\ Len(requests') # Len(requests)
          => /\ Len(requests') = Len(requests) + 1
             /\ lastEvent'.name \in {"mount"} \cup UserTriggers
             /\ requests'[Len(requests')].trigger = lastEvent'.name
        /\ lastEvent'.name \in {"rejected", "response", "json", "jsonThrows"}
          => Len(requests') = Len(requests)
        /\ ( \/ lastEvent'.name \in {"mount", "filter", "clearFilters", "changePageSize"}
             \/ /\ lastEvent'.name = "changePage"
                /\ lastEvent'.page # currentPage
                /\ lastEvent'.page \in 1..pagination.total_pages )
          => Len(requests') = Len(requests) + 1 ]_vars

\* A fetch has failed, nothing is in flight, and another request could still
\* be issued.
C18_IdleAfterFailure ==
    /\ lastEvent.name \in {"rejected", "response", "jsonThrows"}
    /\ error # NoError
    /\ InFlight = {}
    /\ Len(requests) < MaxFetches

\* ----------------------------------------------------------------- C15
\* C15: once updateBrowserUrl has written the filters and the pagination
\* (page >= 1, per_page one of 10, 20, 50) to the location, syncFiltersFromUrl
\* reads back the same filters, the same page and the same per_page.
C15_UrlRoundTrip ==
    ( /\ lastEvent.name = "json"
      /\ pagination.page >= 1
      /\ pagination.per_page \in pageSizeOptions )
    => \A size \in pageSizeOptions :
         syncFiltersFromUrl(location, size)
           = [selectedCategoryId  |-> selectedCategoryId,
              selectedPublisherId |-> selectedPublisherId,
              currentPage |-> pagination.page,
              pageSize    |-> pagination.per_page]

\* A two-digit page, a page size other than the default and one filter have
\* been written to the URL.
C15_WroteFilterAndPage ==
    /\ lastEvent.name = "json"
    /\ pagination.page = 11
    /\ pagination.per_page = 10
    /\ selectedCategoryId = <<"1">>
    /\ selectedPublisherId = <<>>
    /\ location = [category_id |-> <<"1">>, page |-> <<"1", "1">>,
                   per_page |-> <<"1", "0">>]

\* ----------------------------------------------------------------- C16
\* C16: what the mount reads from the URL: a filter whose key is absent is
\* unset; a page that is absent, is not a number or is below 1 is page 1; the
\* page size is the number in per_page when that is 10, 20 or 50, and the
\* default 20 otherwise.
C16_ParseDefaultsAndValidates ==
    lastEvent.name = "mount"
    => LET page    == parseInt(GetOrEmpty(location, "page"))
           perPage == parseInt(GetOrEmpty(location, "per_page"))
           perPageOffered ==
               /\ Has(location, "per_page")
               /\ ~IsNaN(perPage)
               /\ perPage.value \in {10, 20, 50}
       IN  /\ ~Has(location, "category_id") => selectedCategoryId = <<>>
           /\ ~Has(location, "publisher_id") => selectedPublisherId = <<>>
           /\ (~Has(location, "page") \/ IsNaN(page) \/ page.value < 1)
                => currentPage = 1
           /\ perPageOffered => pageSize = perPage.value
           /\ ~perPageOffered => pageSize = 20

\* The page was opened with no filter key, a page that is not a number and a
\* page size that is not offered.
C16_OpenedWithInvalidValues ==
    /\ lastEvent.name = "mount"
    /\ location = [page |-> <<"x">>, per_page |-> <<"1", "5">>]
    /\ currentPage = 1
    /\ pageSize = 20

\* ----------------------------------------------------------------- C17
\* C17: when the mount has run, the state holds what syncFiltersFromUrl reads
\* from the location, and the first request carries exactly those filters,
\* that page and that per_page.
C17_FirstRequestFromUrl ==
    lastEvent.name = "mount"
    => LET synced == syncFiltersFromUrl(location, 20)
       IN  /\ selectedCategoryId = synced.selectedCategoryId
           /\ selectedPublisherId = synced.selectedPublisherId
           /\ currentPage = synced.currentPage
           /\ pageSize = synced.pageSize
           /\ Len(requests) = 1
           /\ requests[1].trigger = "mount"
           /\ FiltersOf(requests[1].query)
                = <<synced.selectedCategoryId, synced.selectedPublisherId>>
           /\ Has(requests[1].query, "category_id")
                <=> synced.selectedCategoryId # <<>>
           /\ Has(requests[1].query, "publisher_id")
                <=> synced.selectedPublisherId # <<>>
           /\ requests[1].query["page"] = toString(synced.currentPage)
           /\ requests[1].query["per_page"] = toString(synced.pageSize)

\* The page was opened on page 12 of a filtered list, 50 per page.
C17_OpenedOnFilteredPage ==
    /\ lastEvent.name = "mount"
    /\ location = [publisher_id |-> <<"1">>, page |-> <<"1", "2">>,
                   per_page |-> <<"5", "0">>]
    /\ requests[1].query = [publisher_id |-> <<"1">>, page |-> <<"1", "2">>,
                            per_page |-> <<"5", "0">>]

\* ----------------------------------------------------------------- C19
\* C19: for 1 <= page <= total_pages, paginationItems is 1..total_pages when
\* total_pages <= 7; otherwise it is 1, an ellipsis iff page > 4, every page
\* from max(2, page - 2) to min(total_pages - 1, page + 2), an ellipsis iff
\* page < total_pages - 3, then total_pages. (5, 10) gives
\* [1, ..., 3, 4, 5, 6, 7, ..., 10] and (1, 10) gives [1, 2, 3, ..., 10].
C19_WindowAsDefined ==
    LET total   == pagination.total_pages
        current == pagination.page
        items   == paginationItems
        lead    == IF current > 4 THEN 1 ELSE 0
        trail   == IF current < total - 3 THEN 1 ELSE 0
        lo      == IF current - 2 > 2 THEN current - 2 ELSE 2
        hi      == IF current + 2 < total - 1 THEN current + 2 ELSE total - 1
    IN  (1 <= current /\ current <= total)
        => /\ total <= 7
                => /\ Len(items) = total
                   /\ \A i \in 1..total : items[i] = PageItem(i)
           /\ total > 7
                => /\ Len(items) = 2 + lead + trail + (hi - lo + 1)
                   /\ items[1] = PageItem(1)
                   /\ items[Len(items)] = PageItem(total)
                   /\ (items[2] = Ellipsis) <=> (lead = 1)
                   /\ (items[Len(items) - 1] = Ellipsis) <=> (trail = 1)
                   /\ \A n \in lo..hi : items[n - lo + 2 + lead] = PageItem(n)
           /\ (current = 5 /\ total = 10)
                => items = <<PageItem(1), Ellipsis, PageItem(3), PageItem(4),
                             PageItem(5), PageItem(6), PageItem(7), Ellipsis,
                             PageItem(10)>>
           /\ (current = 1 /\ total = 10)
                => items = <<PageItem(1), PageItem(2), PageItem(3), Ellipsis,
                             PageItem(10)>>

\* The server has answered with page 5 of 10.
C19_PageFiveOfTen ==
    /\ lastEvent.name = "json"
    /\ pagination.page = 5
    /\ pagination.total_pages = 10
    /\ Len(paginationItems) = 9

\* ----------------------------------------------------------------- C20
\* C20: for total_pages >= 1 and 1 <= page <= total_pages, the page numbers in
\* paginationItems are strictly increasing from left to right, so none occurs
\* twice.
C20_NumbersIncrease ==
    (pagination.total_pages >= 1 /\ 1 <= pagination.page
        /\ pagination.page <= pagination.total_pages)
    => \A i, j \in DOMAIN paginationItems :
         ( /\ i < j
           /\ paginationItems[i].kind = "page"
           /\ paginationItems[j].kind = "page" )
         => paginationItems[i].number < paginationItems[j].number

\* The server has answered with page 3 of 8, where the window touches page 1.
C20_WindowTouchesFirstPage ==
    /\ lastEvent.name = "json"
    /\ pagination.page = 3
    /\ pagination.total_pages = 8
    /\ paginationItems[2] = PageItem(2)

\* ----------------------------------------------------------------- C21
\* C21: the showing range is (0, 0) when there are no items, and otherwise
\* runs from (page - 1) * per_page + 1 to the smaller of page * per_page and
\* total_items; page 3 of 95 items, 20 per page, shows 41 to 60.
C21_ShowingRange ==
    LET page    == pagination.page
        perPage == pagination.per_page
        total   == pagination.total_items
    IN  /\ total = 0 => (showingStart = 0 /\ showingEnd = 0)
        /\ total # 0
             => /\ showingStart = (page - 1) * perPage + 1
                /\ showingEnd <= page * perPage
                /\ showingEnd <= total
                /\ showingEnd \in {page * perPage, total}
        /\ (page = 3 /\ perPage = 20 /\ total = 95)
             => (showingStart = 41 /\ showingEnd = 60)
        /\ (page = 1 /\ perPage = 20 /\ total = 0)
             => (showingStart = 0 /\ showingEnd = 0)

\* The server has answered with the last, partly filled page of 95 items.
C21_LastPagePartlyFilled ==
    /\ lastEvent.name = "json"
    /\ pagination.total_items = 95
    /\ pagination.per_page = 20
    /\ pagination.page = 5
    /\ showingStart = 81
    /\ showingEnd = 95

\* ----------------------------------------------------------------- C29
\* C29: for total_pages > 7 and 1 <= page <= total_pages, two page numbers
\* that follow each other in paginationItems have an ellipsis between them
\* iff they differ by more than 1.
C29_EllipsisWhereOmitted ==
    LET items == paginationItems
    IN  (pagination.total_pages > 7 /\ 1 <= pagination.page
            /\ pagination.page <= pagination.total_pages)
        => /\ \A i \in DOMAIN items :
                items[i] = Ellipsis
                  => /\ i > 1 /\ i < Len(items)
                     /\ items[i - 1].kind = "page"
                     /\ items[i + 1].kind = "page"
                     /\ items[i + 1].number - items[i - 1].number > 1
           /\ \A i \in 1..(Len(items) - 1) :
                (items[i].kind = "page" /\ items[i + 1].kind = "page")
                  => items[i + 1].number - items[i].number = 1

\* The server has answered with page 4 of 8: pages 1..6 are adjacent and one
\* page is omitted before the last.
C29_OnePageOmitted ==
    /\ lastEvent.name = "json"
    /\ pagination.page = 4
    /\ pagination.total_pages = 8
    /\ paginationItems[7] = Ellipsis
    /\ paginationItems[2] = PageItem(2)

\* ----------------------------------------------------------------- C22
\* C22: the stored pagination is left as it is by the mount, by every user
\* event and by every fetch that fails; a step that changes it is the success
\* branch of a fetch, and the new value is the pagination object of that
\* response.
C22_PaginationFromServerOnly ==
    [][ /\ lastEvent'.name \in {"mount", "rejected", "response", "jsonThrows"}
                                  \cup UserTriggers
          => pagination' = pagination
        /\ pagination' # pagination
          => /\ lastEvent'.name = "json"
             /\ lastEvent'.payload.kind = "object"
             /\ lastEvent'.payload.hasPagination
             /\ pagination' = lastEvent'.payload.pagination ]_vars

\* On page 1 of 2 the user has asked for page 2 and the request is still
\* pending: the stored pagination is still that of page 1.
C22_PageAskedNotYetAnswered ==
    /\ lastEvent.name = "changePage"
    /\ lastEvent.page = 2
    /\ currentPage = 2
    /\ pagination.page = 1
    /\ pagination.total_pages = 2
    /\ pagination.has_next
    /\ requests[Len(requests)].status = "pending"

\* ----------------------------------------------------------------- C23
\* C23: a request's query is built from the filters, the page and the page
\* size in force when its fetch is triggered, and a filter key is in the
\* request query, and in the URL the success branch writes, iff that filter is
\* set; no written filter key has an empty value.
C23_FilterKeyIffSet ==
    [][ /\ Len(requests') = Len(requests) + 1
          => LET query == requests'[Len(requests')].query
             IN  /\ Has(query, "category_id") <=> selectedCategoryId' # <<>>
                 /\ Has(query, "publisher_id") <=> selectedPublisherId' # <<>>
                 /\ FiltersOf(query) = <<selectedCategoryId', selectedPublisherId'>>
                 /\ query["page"] = toString(currentPage')
                 /\ query["per_page"] = toString(pageSize')
                 /\ DOMAIN query \subseteq ParamKeys
        /\ lastEvent'.name = "json"
          => /\ Has(location', "category_id") <=> selectedCategoryId' # <<>>
             /\ Has(location', "publisher_id") <=> selectedPublisherId' # <<>>
             /\ FiltersOf(location') = <<selectedCategoryId', selectedPublisherId'>>
             /\ DOMAIN location' \subseteq ParamKeys ]_vars

\* With the category set and the publisher not, a request was issued and the
\* URL was written: both carry category_id and neither carries publisher_id.
C23_OneFilterWritten ==
    /\ lastEvent.name = "json"
    /\ selectedCategoryId = <<"1">>
    /\ selectedPublisherId = <<>>
    /\ DOMAIN location = {"category_id", "page", "per_page"}
    /\ DOMAIN requests[Len(requests)].query = {"category_id", "page", "per_page"}
    /\ requests[Len(requests)].trigger = "filter"

\* ----------------------------------------------------------------- C24
\* C24: with page sizes picked from the offered options and server answers
\* that carry page >= 1 and an offered per_page, every request issued has a
\* page parameter that is the decimal numeral of a number >= 1 and a per_page
\* parameter that is the decimal numeral of 10, 20 or 50.
C24_RequestParametersValid ==
    \A i \in DOMAIN requests :
        LET query == requests[i].query
        IN  /\ Has(query, "page") /\ Has(query, "per_page")
            /\ LET page == parseInt(query["page"])
               IN  /\ ~IsNaN(page)
                   /\ page.value >= 1
                   /\ query["page"] = toString(page.value)
            /\ \E size \in {10, 20, 50} : query["per_page"] = toString(size)

\* The page was opened with page=-1 and per_page=15, and the mount has issued
\* the first request.
C24_OpenedOutOfRange ==
    /\ lastEvent.name = "mount"
    /\ Has(location, "page") /\ location["page"] = <<"-", "1">>
    /\ Has(location, "per_page") /\ location["per_page"] = <<"1", "5">>
    /\ requests[1].query["page"] = <<"1">>
    /\ requests[1].query["per_page"] = <<"2", "0">>

\* ----------------------------------------------------------------- C25
\* C25: when every request is answered or fails, the component again and
\* again reaches (and, once the user stops, stays in) a state with no fetch in
\* flight, loading = false and the outcome Success or Failure.
C25_LeavesLoading ==
    []<>( /\ InFlight = {}
          /\ ~loading
          /\ FetcherState \in {"Success", "Failure"} )

\* Two overlapping requests have both been answered, the first one last.
C25_BothAnswered ==
    /\ Len(requests) = 2
    /\ InFlight = {}
    /\ ~loading
    /\ lastEvent.name \in {"rejected", "response", "json", "jsonThrows"}
    /\ lastEvent.request = 1
    /\ requests[2].from = "Loading"

\* ----------------------------------------------------------------- C26
\* C26: with no fetch in flight and a success as the fetch that completed
\* last, the URL has exactly the filter keys of the selected filters, with
\* their values, and its page and per_page are those of the stored
\* pagination.  The success branch establishes this, and every step taken
\* while nothing is in flight keeps it.
UrlAgreesWithState ==
    /\ DOMAIN location = {"page", "per_page"}
          \cup (IF selectedCategoryId # <<>> THEN {"category_id"} ELSE {})
          \cup (IF selectedPublisherId # <<>> THEN {"publisher_id"} ELSE {})
    /\ FiltersOf(location) = CurrentFilters
    /\ location["page"] = toString(pagination.page)
    /\ location["per_page"] = toString(pagination.per_page)

C26_UrlAgreesAfterSuccess ==
    [][ /\ (lastEvent'.name = "json" /\ InFlight' = {}) => UrlAgreesWithState'
        /\ (InFlight = {} /\ InFlight' = {} /\ UrlAgreesWithState)
             => UrlAgreesWithState' ]_vars

\* Two requests overlapped and the first was answered last, with a success:
\* nothing is in flight, and the URL carries the filter selected now with the
\* page of the answer to the earlier request.
C26_StaleSuccessWritten ==
    /\ InFlight = {}
    /\ lastEvent.name = "json"
    /\ lastEvent.request = 1
    /\ Len(requests) = 2
    /\ FullPayload(lastEvent.payload)
    /\ FiltersOf(requests[1].query) # CurrentFilters
    /\ FiltersOf(location) = CurrentFilters
    /\ location["page"] = <<"2">>
    /\ pagination.page = 2

\* ----------------------------------------------------------------- C27
\* C27 as stated: whenever no fetch is in flight, currentPage is the page of
\* the stored pagination and pageSize is its per_page, also after a fetch that
\* ended in Failure.
C27_RequestSideEqualsServerSide ==
    InFlight = {}
    => (currentPage = pagination.page /\ pageSize = pagination.per_page)

RequestSideAgrees ==
    currentPage = pagination.page /\ pageSize = pagination.per_page

\* C27 as the code has it: the success branch makes currentPage and pageSize
\* equal to the stored pagination's page and per_page, and they stay equal
\* while nothing is in flight; a fetch that fails changes neither side, so the
\* page and page size its request was issued with stay in currentPage and
\* pageSize.
C27_RequestSideAgreesAfterSuccess ==
    [][ /\ lastEvent'.name = "json" => RequestSideAgrees'
        /\ (InFlight = {} /\ InFlight' = {} /\ RequestSideAgrees)
             => RequestSideAgrees'
        /\ lastEvent'.name \in {"rejected", "response", "jsonThrows"}
             => UNCHANGED <<currentPage, pageSize, pagination>> ]_vars

\* A request for 50 per page was answered with a page of 10, and nothing is
\* in flight.
C27_ServerCorrectedSize ==
    /\ InFlight = {}
    /\ lastEvent.name = "json"
    /\ FullPayload(lastEvent.payload)
    /\ requests[lastEvent.request].query["per_page"] = <<"5", "0">>
    /\ pagination.per_page = 10
    /\ pageSize = 10
    /\ currentPage = pagination.page

\* ----------------------------------------------------------------- C28
\* C28: the step in which a fetch ends in Failure (a rejected fetch, a status
\* outside 200..299, or a body that cannot be parsed) sets the error message
\* and clears loading, and changes nothing else: the list, the pagination and
\* the URL are as they were before the response arrived.
C28_FailureChangesOnlyErrorAndLoading ==
    [][ ( \/ lastEvent'.name \in {"rejected", "jsonThrows"}
          \/ /\ lastEvent'.name = "response"
             /\ ~(lastEvent'.status \in 200..299) )
        => /\ UNCHANGED <<games, pagination, location, historyLength, mounted,
                          selectedPublisherId, selectedCategoryId, currentPage,
                          pageSize, locationReads>>
           /\ error' # NoError
           /\ loading' = FALSE
           /\ Len(requests') = Len(requests) ]_vars

\* The body of a second response could not be parsed while the list, the
\* pagination and the URL of the first were stored.
C28_FailureWithStoredList ==
    /\ lastEvent.name = "jsonThrows"
    /\ lastEvent.request = 2
    /\ Len(games) = 2
    /\ pagination.total_items = 15
    /\ Has(location, "page")
    /\ error # NoError

====
